---- MODULE Spec2Model ----
(***************************************************************************)
(* Model of transcribe.py: the command-line driver main(), the audio       *)
(* downloader download_audio() with its cookie resolution and its client   *)
(* fallback loop, and the transcript writer save_transcript().             *)
(*                                                                         *)
(* Python strings are sequences of one-character strings.  The external    *)
(* libraries (yt-dlp, whisper, the file system) are the environment: each  *)
(* call to them ends in one of the outcomes Python allows (it returns, it  *)
(* raises an Exception, it is interrupted by KeyboardInterrupt).           *)
(***************************************************************************)
EXTENDS Integers, Sequences, FiniteSets, TLC

VARIABLES
    \* command-line arguments and environment (fixed during a run)
    url, keep_audio, cookies_path, cookies_from_browser, default_dir, output_format,
    \* control state of main()
    pc, trace, completed, pending_exit, exit_code, error, interrupted,
    \* file system
    output_dir_made, temp_made, temp_exists, audio_in_temp, audio_in_output, files,
    \* download_audio()
    cookies_opts, auto_consulted, info_called, attempt_log, last_error, audio_path,
    \* transcribe_audio() / save_transcript()
    result, transcribe_calls, save_ret

vars == << url, keep_audio, cookies_path, cookies_from_browser, default_dir, output_format,
           pc, trace, completed, pending_exit, exit_code, error, interrupted,
           output_dir_made, temp_made, temp_exists, audio_in_temp, audio_in_output, files,
           cookies_opts, auto_consulted, info_called, attempt_log, last_error, audio_path,
           result, transcribe_calls, save_ret >>

-----------------------------------------------------------------------------
(* Bounds of the model *)

\* most segments in a transcription result
MaxSegs == 2

-----------------------------------------------------------------------------
(* Python values *)

\* Python's None where a str is expected
None == << "<None>" >>

\* truthiness of an optional str: None and "" are falsy
Truthy(s) == s # None /\ s # << >>

RECURSIVE lstrip(_)
lstrip(s) == IF s # << >> /\ Head(s) = " " THEN lstrip(Tail(s)) ELSE s

RECURSIVE rstrip(_)
rstrip(s) == IF s # << >> /\ s[Len(s)] = " " THEN rstrip(SubSeq(s, 1, Len(s) - 1)) ELSE s

\* str.strip()
strip(s) == rstrip(lstrip(s))

\* index of the first ":" of s, 0 when there is none
RECURSIVE find_colon(_, _)
find_colon(s, i) ==
    IF i > Len(s) THEN 0
    ELSE IF s[i] = ":" THEN i
    ELSE find_colon(s, i + 1)

\* sequences of at most n elements of S
RECURSIVE SeqsUpTo(_, _)
SeqsUpTo(S, n) ==
    IF n = 0 THEN { << >> }
    ELSE LET shorter == SeqsUpTo(S, n - 1)
         IN  shorter \cup { Append(s, x) : s \in shorter, x \in S }

-----------------------------------------------------------------------------
(* parse_youtube_url *)

\* A URL is a prefix shape and the number of identifier characters
\* ([a-zA-Z0-9_-]) that follow it.
UrlPatterns == { "youtube.com/watch?v=", "youtube.com/embed/", "youtube.com/v/", "youtu.be/" }

\* {11} in each pattern
IdLen == 11

\* the captured identifier (its length), or 0 for "no match"
parse_youtube_url(u) ==
    IF u.shape \in UrlPatterns /\ u.idchars >= IdLen THEN IdLen ELSE 0

-----------------------------------------------------------------------------
(* Cookie resolution *)

\* The tuple parse_cookies_from_browser returns; None is the empty tuple
\* (both are falsy, and the caller only tests `if parsed`).
parse_cookies_from_browser(spec) ==
    IF ~Truthy(spec) THEN << >>
    ELSE LET s == strip(spec)
             k == find_colon(s, 1)
         IN  IF s = << >> THEN << >>
             ELSE IF k > 0
                  THEN LET browser == strip(SubSeq(s, 1, k - 1))
                           profile == strip(SubSeq(s, k + 1, Len(s)))
                       IN  IF browser # << >> /\ profile # << >> THEN << browser, profile >>
                           ELSE IF browser # << >> THEN << browser >>
                           ELSE << >>
                  ELSE << s >>

\* A directory is [exists, entries], entries a set of [name, mtime] of its
\* *.txt files.  Returns the chosen file name, or None.
find_cookie_file(dir) ==
    IF ~dir.exists THEN None
    ELSE IF \E f \in dir.entries : f.name = << "cookies.txt" >> THEN << "cookies.txt" >>
    ELSE IF dir.entries = {} THEN None
    ELSE (CHOOSE f \in dir.entries : \A g \in dir.entries : g.mtime <= f.mtime).name

\* explicit cookie files that exist on disk
ExistingFiles == { << "p" >> }

PathExists(p) == p \in ExistingFiles

EmptyDict == [ k \in {} |-> << >> ]

\* faulty variant: `if cookies_from_browser` where the code has `elif`
resolve_cookies_both(path, browser, dir) ==
    LET parsed == parse_cookies_from_browser(browser)
        file   == IF Truthy(path) THEN [ k \in { "cookiefile" } |-> path ] ELSE EmptyDict
        both   == [ k \in DOMAIN file \cup { "cookiesfrombrowser" } |->
                      IF k = "cookiefile" THEN path ELSE parsed ]
    IN  IF Truthy(path) /\ ~PathExists(path)
        THEN [ raised |-> TRUE, opts |-> EmptyDict, auto |-> FALSE ]
        ELSE IF Truthy(browser) /\ parsed # << >>
        THEN [ raised |-> FALSE, opts |-> both, auto |-> FALSE ]
        ELSE [ raised |-> FALSE, opts |-> file, auto |-> FALSE ]

\* faulty variant: the existence test of the explicit cookie file is missing
resolve_cookies_no_check(path, browser, dir) ==
    IF Truthy(path)
    THEN [ raised |-> FALSE, opts |-> [ k \in { "cookiefile" } |-> path ], auto |-> FALSE ]
    ELSE [ raised |-> FALSE, opts |-> EmptyDict, auto |-> FALSE ]

\* download_audio, the cookies_opts block: [raised, opts, auto]
resolve_cookies(path, browser, dir) ==
    IF Truthy(path)
    THEN IF ~PathExists(path)
         THEN [ raised |-> TRUE, opts |-> EmptyDict, auto |-> FALSE ]
         ELSE [ raised |-> FALSE, opts |-> [ k \in { "cookiefile" } |-> path ], auto |-> FALSE ]
    ELSE IF Truthy(browser)
    THEN LET parsed == parse_cookies_from_browser(browser)
         IN  IF parsed # << >>
             THEN [ raised |-> FALSE, opts |-> [ k \in { "cookiesfrombrowser" } |-> parsed ],
                    auto |-> FALSE ]
             ELSE [ raised |-> FALSE, opts |-> EmptyDict, auto |-> FALSE ]
    ELSE LET auto_cookie == find_cookie_file(dir)
         IN  IF auto_cookie # None
             THEN [ raised |-> FALSE, opts |-> [ k \in { "cookiefile" } |-> auto_cookie ],
                    auto |-> TRUE ]
             ELSE [ raised |-> FALSE, opts |-> EmptyDict, auto |-> TRUE ]

-----------------------------------------------------------------------------
(* save_transcript *)

\* n as a decimal number of at least w digits
RECURSIVE Digits(_, _)
Digits(n, w) ==
    IF n < 10 /\ w <= 1 THEN << n >>
    ELSE Append(Digits(n \div 10, w - 1), n % 10)

\* format_timestamp for a whole number of seconds: HH:MM:SS,mmm
format_timestamp(seconds) ==
    LET hours   == seconds \div 3600
        minutes == (seconds % 3600) \div 60
        secs    == seconds % 60
        millis  == 0
    IN  Digits(hours, 2) \o << ":" >> \o Digits(minutes, 2) \o << ":" >>
          \o Digits(secs, 2) \o << "," >> \o Digits(millis, 3)

\* the lines one segment contributes to the .srt file
srt_block(i, segment) ==
    << << "num", i >>,
       << "time", format_timestamp(segment.start), format_timestamp(segment.end) >>,
       << "text", strip(segment.text) >>,
       << "blank" >> >>

\* for i, segment in enumerate(segments, start=1): f.write(...)
RECURSIVE srt_lines(_, _)
srt_lines(segments, i) ==
    IF segments = << >> THEN << >>
    ELSE srt_block(i, Head(segments)) \o srt_lines(Tail(segments), i + 1)

\* faulty variant: enumerate(segments) without start=1
srt_content_from_zero(res) == srt_lines(res.segments, 0)

srt_content(res) == srt_lines(res.segments, 1)

txt_content(res) == strip(res.text)

\* files is [txt, srt]: the content of output_path.with_suffix(...) or
\* NoFile.  Returns [raised, files, ret].
NoFile == << "<no file>" >>

\* faulty variant: the text file is opened before the format tag is looked at
save_transcript_opens_first(res, fs, format) ==
    LET opened == [ fs EXCEPT !.txt = << >> ]
    IN  IF format = "txt"
        THEN [ raised |-> FALSE, files |-> [ fs EXCEPT !.txt = txt_content(res) ],
               ret |-> "txt" ]
        ELSE IF format = "srt"
        THEN [ raised |-> FALSE, files |-> [ fs EXCEPT !.srt = srt_content(res) ],
               ret |-> "srt" ]
        ELSE IF format = "both"
        THEN [ raised |-> FALSE,
               files |-> [ fs EXCEPT !.txt = txt_content(res), !.srt = srt_content(res) ],
               ret |-> "srt" ]
        ELSE [ raised |-> TRUE, files |-> opened, ret |-> "" ]

save_transcript(res, fs, format) ==
    IF format = "txt"
    THEN [ raised |-> FALSE, files |-> [ fs EXCEPT !.txt = txt_content(res) ], ret |-> "txt" ]
    ELSE IF format = "srt"
    THEN [ raised |-> FALSE, files |-> [ fs EXCEPT !.srt = srt_content(res) ], ret |-> "srt" ]
    ELSE IF format = "both"
    THEN [ raised |-> FALSE,
           files |-> [ fs EXCEPT !.txt = txt_content(res), !.srt = srt_content(res) ],
           ret |-> "srt" ]
    ELSE [ raised |-> TRUE, files |-> fs, ret |-> "" ]

-----------------------------------------------------------------------------
(* Inputs *)

Urls ==
    { [ shape |-> "youtube.com/watch?v=", idchars |-> 11 ],
      [ shape |-> "youtu.be/", idchars |-> 12 ],
      [ shape |-> "youtube.com/embed/", idchars |-> 10 ],
      [ shape |-> "vimeo.com/", idchars |-> 11 ] }

\* --cookies: absent, empty, a file that exists, a file that does not
CookiePaths == { None, << >>, << "p" >>, << "q" >> }

\* --cookies-from-browser
BrowserSpecs ==
    { None, << >>, << " " >>, << "c" >>, << "c", ":", "x" >>, << " ", "c", ":", " " >>,
      << ":", "x" >> }

\* the cookies directory next to the script
CookieDirs ==
    { [ exists |-> FALSE, entries |-> {} ],
      [ exists |-> TRUE, entries |-> {} ],
      [ exists |-> TRUE,
        entries |-> { [ name |-> << "cookies.txt" >>, mtime |-> 1 ],
                      [ name |-> << "a.txt" >>, mtime |-> 2 ] } ],
      [ exists |-> TRUE,
        entries |-> { [ name |-> << "a.txt" >>, mtime |-> 1 ],
                      [ name |-> << "b.txt" >>, mtime |-> 2 ] } ] }

\* argparse choices of --output
Formats == { "txt", "srt", "both" }

Texts == { << >>, << "a" >>, << " ", "a" >>, << "a", " " >>, << " ", "a", " ", "b", " " >> }

SegTimes == { << 0, 1 >>, << 3599, 3661 >> }

Segments == { [ start |-> t[1], end |-> t[2], text |-> x ] : t \in SegTimes, x \in Texts }

\* what model.transcribe can return
Results == { [ text |-> x, segments |-> g ] : x \in Texts, g \in SeqsUpTo(Segments, MaxSegs) }

\* the results main() is run on
TranscribeResults ==
    { r \in Results : /\ r.text \in { << "a" >>, << " ", "a", " ", "b", " " >> }
                      /\ Len(r.segments) = 1
                      /\ r.segments[1].text = r.text
                      /\ r.segments[1].start = 0 }

EmptyResult == [ text |-> << >>, segments |-> << >> ]

NoFiles == [ txt |-> NoFile, srt |-> NoFile ]

NoError == [ type |-> "none", detail |-> 0 ]

\* how a call into a library can end
Outcomes == { "return", "Exception", "KeyboardInterrupt" }

-----------------------------------------------------------------------------
(* main *)

args == << url, keep_audio, cookies_path, cookies_from_browser, default_dir, output_format >>
fsys == << output_dir_made, temp_made, temp_exists, audio_in_temp, audio_in_output, files >>
dl   == << cookies_opts, auto_consulted, info_called, attempt_log, last_error, audio_path >>
ts   == << result, transcribe_calls, save_ret >>

Init ==
    /\ url \in Urls
    /\ keep_audio \in BOOLEAN
    /\ cookies_path \in CookiePaths
    /\ cookies_from_browser \in BrowserSpecs
    /\ default_dir \in CookieDirs
    /\ output_format \in Formats
    /\ pc = "start"
    /\ trace = << >>
    /\ completed = {}
    /\ pending_exit = 0
    /\ exit_code = -1
    /\ error = NoError
    /\ interrupted = FALSE
    /\ output_dir_made = FALSE
    /\ temp_made = FALSE
    /\ temp_exists = FALSE
    /\ audio_in_temp = FALSE
    /\ audio_in_output = FALSE
    /\ files = NoFiles
    /\ cookies_opts = EmptyDict
    /\ auto_consulted = FALSE
    /\ info_called = FALSE
    /\ attempt_log = << >>
    /\ last_error = 0
    /\ audio_path = "None"
    /\ result = EmptyResult
    /\ transcribe_calls = 0
    /\ save_ret = ""

\* an exception leaves the try block: control goes to the except clauses
Raise(type, detail) ==
    /\ pc' = "except"
    /\ error' = [ type |-> type, detail |-> detail ]
    /\ interrupted' = (type = "KeyboardInterrupt")

NoRaise == UNCHANGED << error, interrupted >>

\* an exception outside the try block: the interpreter prints the traceback
\* and the process ends with status 1
Uncaught(type) ==
    /\ pc' = "exited"
    /\ exit_code' = 1
    /\ error' = [ type |-> type, detail |-> 0 ]
    /\ UNCHANGED interrupted

\* video_id = parse_youtube_url(args.url); if not video_id: sys.exit(1)
ValidateUrl ==
    /\ pc = "start"
    /\ trace' = Append(trace, "validate")
    /\ IF parse_youtube_url(url) = 0
       THEN /\ pc' = "exited"
            /\ exit_code' = 1
            /\ UNCHANGED completed
       ELSE /\ pc' = "mkdir"
            /\ completed' = completed \cup { "validate" }
            /\ UNCHANGED exit_code
    /\ UNCHANGED << args, pending_exit, error, interrupted, fsys, dl, ts >>

\* output_dir.mkdir(parents=True, exist_ok=True)
MakeOutputDir ==
    /\ pc = "mkdir"
    /\ trace' = Append(trace, "mkdir")
    /\ \/ /\ output_dir_made' = TRUE
          /\ pc' = "mkdtemp"
          /\ completed' = completed \cup { "mkdir" }
          /\ UNCHANGED << exit_code, error, interrupted >>
       \/ /\ Uncaught("OSError")
          /\ UNCHANGED << output_dir_made, completed >>
    /\ UNCHANGED << args, pending_exit, temp_made, temp_exists, audio_in_temp,
                    audio_in_output, files, dl, ts >>

\* temp_dir = Path(tempfile.mkdtemp()); audio_path = None
MakeTempDir ==
    /\ pc = "mkdtemp"
    /\ trace' = Append(trace, "mkdtemp")
    /\ \/ /\ temp_made' = TRUE
          /\ temp_exists' = TRUE
          /\ pc' = "resolve"
          /\ completed' = completed \cup { "mkdtemp" }
          /\ UNCHANGED << exit_code, error, interrupted >>
       \/ /\ Uncaught("OSError")
          /\ UNCHANGED << temp_made, temp_exists, completed >>
    /\ UNCHANGED << args, pending_exit, output_dir_made, audio_in_temp,
                    audio_in_output, files, dl, ts >>

\* parse_js_runtimes / detect_js_runtime / parse_remote_components
ResolveRuntimes ==
    /\ pc = "resolve"
    /\ trace' = Append(trace, "resolve")
    /\ \E o \in Outcomes :
         IF o = "return"
         THEN /\ pc' = "preflight"
              /\ completed' = completed \cup { "resolve" }
              /\ NoRaise
         ELSE /\ Raise(o, 0)
              /\ UNCHANGED completed
    /\ UNCHANGED << args, pending_exit, exit_code, fsys, dl, ts >>

\* preflight_check(...): prints a report, touches neither network nor state
Preflight ==
    /\ pc = "preflight"
    /\ trace' = Append(trace, "preflight")
    /\ \E o \in Outcomes :
         IF o = "return"
         THEN /\ pc' = "dl_cookies"
              /\ completed' = completed \cup { "preflight" }
              /\ NoRaise
         ELSE /\ Raise(o, 0)
              /\ UNCHANGED completed
    /\ UNCHANGED << args, pending_exit, exit_code, fsys, dl, ts >>

-----------------------------------------------------------------------------
(* download_audio *)

\* faulty variant: the android configuration is tried before the ios one
client_configs_android_first ==
    << << "android", "web" >>, << "ios", "web" >>, << "tv", "web" >>, << >> >>

\* the player_client list of each configuration; {} has none
client_configs ==
    << << "ios", "web" >>, << "android", "web" >>, << "tv", "web" >>, << >> >>

\* cookies_opts: raises FileNotFoundError before any call into yt-dlp
DownloadCookies ==
    /\ pc = "dl_cookies"
    /\ trace' = Append(trace, "download")
    /\ LET r == resolve_cookies(cookies_path, cookies_from_browser, default_dir)
       IN  IF r.raised
           THEN /\ Raise("FileNotFoundError", 0)
                /\ UNCHANGED << cookies_opts, auto_consulted >>
           ELSE /\ pc' = "dl_info"
                /\ cookies_opts' = r.opts
                /\ auto_consulted' = r.auto
                /\ NoRaise
    /\ UNCHANGED << args, completed, pending_exit, exit_code, fsys, info_called,
                    attempt_log, last_error, audio_path, ts >>

\* ydl.extract_info(url, download=False): not guarded by any try
DownloadInfo ==
    /\ pc = "dl_info"
    /\ info_called' = TRUE
    /\ \E o \in Outcomes :
         IF o = "return"
         THEN /\ pc' = "dl_attempt"
              /\ NoRaise
         ELSE Raise(o, 0)
    /\ UNCHANGED << args, trace, completed, pending_exit, exit_code, fsys, cookies_opts,
                    auto_consulted, attempt_log, last_error, audio_path, ts >>

\* an attempt succeeds when ydl.download returned and audio_path.exists()
Succeeded(a) == a.outcome = "return" /\ a.exists

\* One iteration of `for extractor_args in client_configs`, and the raise
\* after the loop when it was the last one.  The attempt's exception is
\* identified by the attempt's number.
DownloadAttempt ==
    /\ pc = "dl_attempt"
    /\ Len(attempt_log) < Len(client_configs)
    /\ LET i == Len(attempt_log) + 1
       IN  \E o \in Outcomes, e \in BOOLEAN :
             LET a == [ client |-> client_configs[i], outcome |-> o, exists |-> e ]
                 le == IF o = "Exception" THEN i ELSE last_error
             IN  /\ attempt_log' = Append(attempt_log, a)
                 /\ audio_in_temp' = e
                 /\ last_error' = le
                 /\ IF Succeeded(a)
                    THEN /\ audio_path' = "mp3"
                         /\ pc' = "transcribe"
                         /\ completed' = completed \cup { "download" }
                         /\ NoRaise
                    ELSE IF o = "KeyboardInterrupt"
                    THEN /\ Raise("KeyboardInterrupt", 0)
                         /\ UNCHANGED << audio_path, completed >>
                    ELSE IF i = Len(client_configs)
                    THEN /\ Raise("AllFailed", le)
                         /\ UNCHANGED << audio_path, completed >>
                    ELSE /\ pc' = "dl_attempt"
                         /\ NoRaise
                         /\ UNCHANGED << audio_path, completed >>
    /\ UNCHANGED << args, trace, pending_exit, exit_code, output_dir_made, temp_made,
                    temp_exists, audio_in_output, files, cookies_opts, auto_consulted,
                    info_called, ts >>

-----------------------------------------------------------------------------
(* main, continued *)

\* faulty variant: a failed transcription is tried a second time
Transcribe_retries ==
    /\ pc = "transcribe"
    /\ trace' = Append(trace, "transcribe")
    /\ transcribe_calls' = transcribe_calls + 1
    /\ \E o \in Outcomes :
         IF o = "return"
         THEN /\ \E r \in TranscribeResults : result' = r
              /\ pc' = "save"
              /\ completed' = completed \cup { "transcribe" }
              /\ NoRaise
         ELSE IF o = "Exception" /\ transcribe_calls = 0
         THEN /\ pc' = "transcribe"
              /\ NoRaise
              /\ UNCHANGED << result, completed >>
         ELSE /\ Raise(o, 0)
              /\ UNCHANGED << result, completed >>
    /\ UNCHANGED << args, pending_exit, exit_code, fsys, dl, save_ret >>

\* result = transcribe_audio(audio_path, ...)
Transcribe ==
    /\ pc = "transcribe"
    /\ trace' = Append(trace, "transcribe")
    /\ transcribe_calls' = transcribe_calls + 1
    /\ \E o \in Outcomes :
         IF o = "return"
         THEN /\ \E r \in TranscribeResults : result' = r
              /\ pc' = "save"
              /\ completed' = completed \cup { "transcribe" }
              /\ NoRaise
         ELSE /\ Raise(o, 0)
              /\ UNCHANGED << result, completed >>
    /\ UNCHANGED << args, pending_exit, exit_code, fsys, dl, save_ret >>

\* save_transcript(result, output_path, args.output)
SaveTranscript ==
    /\ pc = "save"
    /\ trace' = Append(trace, "save")
    /\ \E o \in Outcomes :
         IF o = "return"
         THEN LET r == save_transcript(result, files, output_format)
              IN  /\ files' = r.files
                  /\ save_ret' = r.ret
                  /\ IF r.raised
                     THEN /\ Raise("ValueError", 0)
                          /\ UNCHANGED completed
                     ELSE /\ pc' = "move"
                          /\ completed' = completed \cup { "save" }
                          /\ NoRaise
         ELSE /\ Raise(o, 0)
              /\ UNCHANGED << files, save_ret, completed >>
    /\ UNCHANGED << args, pending_exit, exit_code, output_dir_made, temp_made, temp_exists,
                    audio_in_temp, audio_in_output, dl, result, transcribe_calls >>

\* if args.keep_audio and audio_path: shutil.move(...); audio_path = None
\* then the success report; the try block ends
MoveAudio ==
    /\ pc = "move"
    /\ IF keep_audio /\ audio_path # "None"
       THEN /\ trace' = Append(trace, "move")
            /\ \E o \in Outcomes :
                 IF o = "return"
                 THEN /\ audio_in_temp' = FALSE
                      /\ audio_in_output' = TRUE
                      /\ audio_path' = "None"
                      /\ completed' = completed \cup { "move" }
                      /\ pc' = "finally"
                      /\ NoRaise
                 ELSE /\ Raise(o, 0)
                      /\ UNCHANGED << audio_in_temp, audio_in_output, audio_path, completed >>
       ELSE /\ pc' = "finally"
            /\ NoRaise
            /\ UNCHANGED << trace, audio_in_temp, audio_in_output, audio_path, completed >>
    /\ UNCHANGED << args, pending_exit, exit_code, output_dir_made, temp_made, temp_exists,
                    files, cookies_opts, auto_consulted, info_called, attempt_log,
                    last_error, ts >>

\* faulty variant: the handler ends the process at once (os._exit), skipping finally
HandleException_exits_at_once ==
    /\ pc = "except"
    /\ pending_exit' = 1
    /\ exit_code' = 1
    /\ pc' = "exited"
    /\ UNCHANGED << args, trace, completed, error, interrupted, fsys, dl, ts >>

\* faulty variant: the handler prints the error and forgets sys.exit(1)
HandleException_forgets_exit ==
    /\ pc = "except"
    /\ pc' = "finally"
    /\ UNCHANGED << args, trace, completed, pending_exit, exit_code, error, interrupted,
                    fsys, dl, ts >>

\* except KeyboardInterrupt / except Exception: print, sys.exit(1)
HandleException ==
    /\ pc = "except"
    /\ pending_exit' = 1
    /\ pc' = "finally"
    /\ UNCHANGED << args, trace, completed, exit_code, error, interrupted, fsys, dl, ts >>

\* finally: if temp_dir.exists(): shutil.rmtree(temp_dir, ignore_errors=True)
\* then the process ends with the pending status
Finally ==
    /\ pc = "finally"
    /\ IF temp_exists
       THEN /\ temp_exists' = FALSE
            /\ audio_in_temp' = FALSE
       ELSE UNCHANGED << temp_exists, audio_in_temp >>
    /\ exit_code' = pending_exit
    /\ pc' = "exited"
    /\ UNCHANGED << args, trace, completed, pending_exit, error, interrupted,
                    output_dir_made, temp_made, audio_in_output, files, dl, ts >>

Next ==
    \/ ValidateUrl
    \/ MakeOutputDir
    \/ MakeTempDir
    \/ ResolveRuntimes
    \/ Preflight
    \/ DownloadCookies
    \/ DownloadInfo
    \/ DownloadAttempt
    \/ Transcribe
    \/ SaveTranscript
    \/ MoveAudio
    \/ HandleException
    \/ Finally

Spec == Init /\ [][Next]_vars

-----------------------------------------------------------------------------
(* save_transcript called on its own, with any result and any format tag *)

AnyFormats == Formats \cup { "json", "" }

\* files already at output_path before the call
OldFiles ==
    [ txt |-> << "o" >>,
      srt |-> srt_block(1, [ start |-> 0, end |-> 1, text |-> << "o" >> ]) ]

InitSave ==
    /\ url \in { u \in Urls : parse_youtube_url(u) # 0 /\ u.idchars = IdLen }
    /\ keep_audio = FALSE
    /\ cookies_path = None
    /\ cookies_from_browser = None
    /\ default_dir \in { d \in CookieDirs : ~d.exists }
    /\ output_format \in AnyFormats
    /\ pc = "save_call"
    /\ trace = << >>
    /\ completed = {}
    /\ pending_exit = 0
    /\ exit_code = -1
    /\ error = NoError
    /\ interrupted = FALSE
    /\ output_dir_made = TRUE
    /\ temp_made = FALSE
    /\ temp_exists = FALSE
    /\ audio_in_temp = FALSE
    /\ audio_in_output = FALSE
    /\ files \in { NoFiles, OldFiles }
    /\ cookies_opts = EmptyDict
    /\ auto_consulted = FALSE
    /\ info_called = FALSE
    /\ attempt_log = << >>
    /\ last_error = 0
    /\ audio_path = "None"
    /\ result \in Results
    /\ transcribe_calls = 0
    /\ save_ret = ""

\* save_transcript(result, output_path, output_format)
SaveCall ==
    /\ pc = "save_call"
    /\ LET r == save_transcript(result, files, output_format)
       IN  /\ files' = r.files
           /\ save_ret' = r.ret
           /\ error' = IF r.raised THEN [ type |-> "ValueError", detail |-> 0 ] ELSE NoError
    /\ pc' = "save_returned"
    /\ UNCHANGED << args, trace, completed, pending_exit, exit_code, interrupted,
                    output_dir_made, temp_made, temp_exists, audio_in_temp,
                    audio_in_output, dl, result, transcribe_calls >>

NextSave == SaveCall

SpecSave == InitSave /\ [][NextSave]_vars

-----------------------------------------------------------------------------
(* Properties of save_transcript *)

\* C8: save_transcript with a format tag other than txt, srt or both raises
\* the unsupported-format error and leaves every file as it was: nothing is
\* created, nothing is written.
C8_UnsupportedFormatWritesNothing ==
    [][ (pc = "save_call" /\ output_format \notin { "txt", "srt", "both" })
          => (error'.type = "ValueError" /\ files' = files) ]_vars

C8_Witness ==
    /\ pc = "save_returned"
    /\ output_format = "json"
    /\ error.type = "ValueError"
    /\ files = OldFiles
    /\ result.text # << >>

AllSpaces(s) == \A i \in 1..Len(s) : s[i] = " "

\* t is s without its leading and trailing blanks
IsTrimOf(t, s) ==
    /\ t = << >> \/ (t[1] # " " /\ t[Len(t)] # " ")
    /\ \E i \in 0..Len(s), j \in 0..Len(s) :
         /\ i + Len(t) + j = Len(s)
         /\ AllSpaces(SubSeq(s, 1, i))
         /\ SubSeq(s, i + 1, i + Len(t)) = t
         /\ AllSpaces(SubSeq(s, i + Len(t) + 1, Len(s)))

\* C9: for srt and both, the .srt file holds exactly one block per segment,
\* in segment order, numbered 1, 2, ..., n; for both, the .txt file holds
\* exactly the trimmed text, and the returned path is the .srt file.
C9_SrtOneNumberedBlockPerSegment ==
    (pc = "save_returned" /\ output_format \in { "srt", "both" }) =>
        LET n == Len(result.segments)
            L == files.srt
        IN  /\ Len(L) = 4 * n
            /\ \A k \in 1..n :
                 /\ L[4 * k - 3] = << "num", k >>
                 /\ L[4 * k - 2][1] = "time"
                 /\ L[4 * k - 1][1] = "text"
                 /\ IsTrimOf(L[4 * k - 1][2], result.segments[k].text)
                 /\ L[4 * k] = << "blank" >>
            /\ save_ret = "srt"
            /\ output_format = "both" => IsTrimOf(files.txt, result.text)

C9_Witness ==
    /\ pc = "save_returned"
    /\ output_format = "both"
    /\ Len(result.segments) = 2
    /\ result.segments[1].text # result.segments[2].text
    /\ result.text = << " ", "a", " ", "b", " " >>
    /\ files.txt = << "a", " ", "b" >>
    /\ files.srt[5] = << "num", 2 >>

-----------------------------------------------------------------------------
(* Properties of download_audio *)

\* the order the specification fixes for the client configurations
FixedOrder == << << "ios", "web" >>, << "android", "web" >>, << "tv", "web" >>, << >> >>

Last(q) == q[Len(q)]

InFixedOrder ==
    /\ Len(attempt_log) <= Len(FixedOrder)
    /\ \A i \in 1..Len(attempt_log) : attempt_log[i].client = FixedOrder[i]

\* C1 as stated: the attempts follow the fixed order, at most four; the
\* function returns at the first attempt after which the audio file exists
\* and makes no attempt after it; earlier exceptions do not propagate.
C1_ReturnsAtFirstExistingFile ==
    /\ InFixedOrder
    /\ \A i \in 1..(Len(attempt_log) - 1) : ~attempt_log[i].exists
    /\ (attempt_log # << >> /\ Last(attempt_log).exists) => "download" \in completed
    /\ pc = "transcribe" => (error = NoError /\ audio_path = "mp3")

\* C1, amended: the attempts follow the fixed order, at most four; the
\* function returns at the first attempt that ends without raising and
\* after which the audio file exists, and makes no attempt after it (an
\* attempt that raises counts as failed even when the file exists
\* afterwards); exceptions of earlier attempts do not reach the caller.
C1_ReturnsAtFirstSuccess ==
    /\ InFixedOrder
    /\ \A i \in 1..(Len(attempt_log) - 1) :
         /\ ~(attempt_log[i].outcome = "return" /\ attempt_log[i].exists)
         /\ attempt_log[i].outcome # "KeyboardInterrupt"
    /\ "download" \in completed <=>
         /\ attempt_log # << >>
         /\ Last(attempt_log).outcome = "return"
         /\ Last(attempt_log).exists
    /\ pc = "transcribe" =>
         /\ "download" \in completed
         /\ error = NoError
         /\ audio_path = "mp3"

C1_Witness ==
    /\ pc = "transcribe"
    /\ Len(attempt_log) = 4
    /\ \A i \in 1..3 : attempt_log[i].outcome = "Exception"
    /\ attempt_log[2].exists
    /\ attempt_log[4].client = << >>
    /\ last_error = 3

\* C2: when all four attempts fail, the aggregate error carries the failure
\* detail of the fourth attempt.
C2_AggregateCarriesFourthFailure ==
    error.type = "AllFailed" => error.detail = Len(attempt_log)

C6_MissingCookieFileFailsFast ==
    (Truthy(cookies_path) /\ cookies_path # << "p" >>) =>
        /\ ~info_called
        /\ attempt_log = << >>
        /\ pc \notin { "dl_info", "dl_attempt", "transcribe", "save", "move" }
        /\ (trace # << >> /\ Last(trace) = "download") => error.type = "FileNotFoundError"
        /\ pc = "exited" => exit_code = 1

C6_Witness ==
    /\ pc = "exited"
    /\ cookies_path = << "q" >>
    /\ Truthy(cookies_from_browser)
    /\ error.type = "FileNotFoundError"
    /\ exit_code = 1
    /\ temp_made

-----------------------------------------------------------------------------
(* Properties of main *)

PipelineCompleted ==
    /\ { "download", "transcribe", "save" } \subseteq completed
    /\ keep_audio => "move" \in completed

C7_KeptAudioInOutputAtExit ==
    (pc = "exited" /\ keep_audio /\ "download" \in completed) => audio_in_output

StepOrder ==
    << "validate", "mkdir", "mkdtemp", "resolve", "preflight", "download", "transcribe",
       "save", "move" >>

Steps(q) == { q[i] : i \in 1..Len(q) }

====
